---- MODULE Spec2Model ----
(***************************************************************************)
(* GeneticOptimizer (src/src/optimizer.py) driving SU2Interface            *)
(* (src/src/su2_interface.py).                                             *)
(*                                                                         *)
(* Floats are modelled by integers.  An individual (a dict keyed by the    *)
(* variable names, in the order of self.variables) is a tuple indexed by   *)
(* the position of the variable in self.variables.  A draw of              *)
(* random.random() is a number of tenths in 0..9, and a rate r of the      *)
(* configuration is the number of tenths 10*r.                             *)
(*                                                                         *)
(* The ledger record keeps the fields generation, cl, cd and cl_cd; the     *)
(* columns the optimizer only copies into it (design_id, the genes of the  *)
(* individual, the geometry metadata) are left out of the record.  The     *)
(* geometry is exported in the 'su2' format, so _evaluate finds a mesh     *)
(* path.                                                                   *)
(*                                                                         *)
(* evaluate_design is modelled twice: as one step of the optimizer with    *)
(* one of its outcomes (EvaluateSuccess, EvaluateTimeout, ...), and step   *)
(* by step, with the child process, its pipe and the clock, in SpecSolver. *)
(***************************************************************************)
EXTENDS Integers, Sequences, FiniteSets

VARIABLES
    config,           \* OptimizerConfig of the running process
    variables,        \* self.variables: the DesignVariable list
    visualizer,       \* self.visualizer: "none", "disabled" or "enabled"
    solver,           \* SU2Interface: its configuration and its evaluate_design call
    pc,               \* position of the process in optimise()
    population,       \* optimise: population
    fitness,          \* optimise: fitness, built one _evaluate call at a time
    generation,       \* optimise: the loop variable of line 82
    next_population,  \* optimise: next_population
    parent_a,         \* optimise: parent_a
    parent_b,         \* optimise: parent_b
    child_a,          \* optimise: child_a
    child_b,          \* optimise: child_b
    crossed,          \* whether the last _crossover call recombined, and its pivot
    participants,     \* _select: the indices random.sample drew, for each parent
    history,          \* self._history
    history_csv,      \* the file config.history_csv: does it exist, and its lines
    evaluator_calls,  \* number of solver.evaluate_design calls of this process
    result,           \* what optimise() returned
    error,            \* the exception that left optimise(), "none" if none
    run,              \* number of the process appending to history_csv
    seeded,           \* two processes started with the same random_seed
    heap              \* the dict objects of optimise and the names bound to them

vars == <<config, variables, visualizer, solver, pc, population, fitness, generation,
          next_population, parent_a, parent_b, child_a, child_b, crossed, participants,
          history, history_csv, evaluator_calls, result, error, run,
          seeded, heap>>

(***************************************************************************)
(* Bounds of the model.                                                    *)
(***************************************************************************)
MaxPopulation == 3
\* the largest population of the specifications other than SpecWide
SmallPopulation == 2
MaxGenerations == 2
MaxRuns == 2
\* a process is started again on a ledger file of at most this many lines
MaxPriorLines == 5
\* a run makes population_size * (generations + 1) evaluations at most
MaxEvaluations == 6
\* float("inf"), above every finite ratio of the model
Inf == 1000

Max(a, b) == IF a >= b THEN a ELSE b
Min(a, b) == IF a <= b THEN a ELSE b

\* the values random.random() is drawn from, in tenths
Uniform01 == {0, 5, 9}
\* the values random.gauss(0, sigma * range) is drawn from
Deltas == {-1, 2}

\* the design variables of a run: [minimum, maximum] per variable
TwoVariables ==
    << [minimum |-> 0, maximum |-> 1], [minimum |-> 1, maximum |-> 2] >>

ThreeVariables ==
    << [minimum |-> 0, maximum |-> 1], [minimum |-> 1, maximum |-> 2],
       [minimum |-> 3, maximum |-> 4] >>

\* the (cl, cd) pairs the solver's output files hold
SolverOutputs == { <<2, 1>>, <<6, 2>> }

Objectives == { "maximize_cl_cd", "minimize_cd", "target_cl" }

Configs ==
    { [ population_size |-> ps, generations |-> g, crossover_rate |-> 5,
        mutation_rate |-> 5, tournament_size |-> ts, elitism |-> e,
        objective |-> ob, target_cl |-> 2 ] :
        ps \in 2..MaxPopulation, g \in 1..MaxGenerations,
        ts \in 2..MaxPopulation, e \in 0..MaxPopulation,
        ob \in Objectives }

\* the configurations section 6 of the specification allows
ValidConfigs ==
    { c \in Configs :
        /\ c.tournament_size <= c.population_size
        /\ c.elitism <= c.population_size
        /\ c.population_size * (c.generations + 1) <= MaxEvaluations }

\* the objective main.py takes when the configuration names none
DefaultObjective == "maximize_cl_cd"

\* one configuration section 6 allows, with the smallest population
BaseConfig ==
    [ population_size |-> 2, generations |-> 1, crossover_rate |-> 5,
      mutation_rate |-> 5, tournament_size |-> 2, elitism |-> 1,
      objective |-> DefaultObjective, target_cl |-> 2 ]

(***************************************************************************)
(* DesignVariable                                                          *)
(***************************************************************************)
\* DesignVariable.sample: random.uniform(minimum, maximum)
sample(var) ==
    Min(var.minimum, var.maximum)..Max(var.minimum, var.maximum)

clamp_unbounded_above(var, value) == Max(var.minimum, value)

\* DesignVariable.clamp
clamp(var, value) == Max(var.minimum, Min(var.maximum, value))

\* GeneticOptimizer._random_individual
_random_individual(vs) ==
    { ind \in [1..Len(vs) -> UNION { sample(vs[k]) : k \in 1..Len(vs) }] :
        \A k \in 1..Len(vs) : ind[k] \in sample(vs[k]) }

(***************************************************************************)
(* SU2Interface                                                            *)
(***************************************************************************)
\* SU2Interface._parse_results, lines 171-177: the coefficients returned
\* (SolverOutputs holds pairs whose ratio is a whole number)
AerodynamicCoefficients(cl, cd) ==
    [ cl |-> cl, cd |-> cd, cl_cd |-> IF cd # 0 THEN cl \div cd ELSE Inf ]

\* None of Python; a float v that was read is the tuple <<v>>
None == <<>>

\* the child's output has at most this many lines
MaxLines == 2
\* the clock of the model stops after this many seconds
MaxElapsed == 2
\* the evaluations one run of the step-by-step model makes
MaxCalls == 2
\* the history file has at most this many data rows
MaxHistoryRows == 2
\* SU2Config.timeout_seconds when a budget is configured, in seconds
TimeoutBudget == 1

\* the values of uuid.uuid4().hex[:8]: eight hexadecimal digits drawn at
\* random, so two draws can be equal
Identifiers == { "0a1b2c3d", "4e5f6a7b" }

\* process.returncode of a child that ended by itself: 0, an exit code, or
\* the negated number of the signal that ended it
ExitStatuses == { 0, 1, -11 }

\* history.csv as csv.DictReader reads it: the columns of its header, and
\* the <<CL, CD>> values of each row (a value under a missing column is
\* never read)
HistoryFiles ==
    { [ exists |-> FALSE, has_CL |-> FALSE, has_CD |-> FALSE, rows |-> <<>> ] }
    \cup
    { [ exists |-> TRUE, has_CL |-> hcl, has_CD |-> hcd, rows |-> rows ] :
        hcl \in BOOLEAN, hcd \in BOOLEAN,
        rows \in UNION { [1..n -> { <<2, 0>>, <<2, 1>> }] : n \in 0..MaxHistoryRows } }

\* the forces file: the value of its last line starting with CL, of its
\* last line starting with CD
ForcesFiles ==
    { [ exists |-> FALSE, CL |-> None, CD |-> None ] }
    \cup
    { [ exists |-> TRUE, CL |-> fcl, CD |-> fcd ] :
        fcl \in { None, <<6>> }, fcd \in { None, <<0>>, <<2>> } }

\* Python's (x or 0.0) for x None or a float
OrZero(x) == IF x = None THEN 0 ELSE x[1]

RECURSIVE HistoryValues(_, _)
\* _parse_results lines 149-154: cl and cd after the first n rows
HistoryValues(file, n) ==
    IF n = 0 THEN [ cl |-> None, cd |-> None ]
    ELSE LET before == HistoryValues(file, n - 1)
             row == file.rows[n]
         IN  [ cl |-> << IF file.has_CL THEN row[1] ELSE OrZero(before.cl) >>,
               cd |-> << IF file.has_CD THEN row[2] ELSE OrZero(before.cd) >> ]

\* SU2Interface._parse_results
_parse_results(history_file, forces_file) ==
    LET read == IF history_file.exists
                THEN HistoryValues(history_file, Len(history_file.rows))
                ELSE [ cl |-> None, cd |-> None ]
        cl == IF forces_file.exists /\ forces_file.CL # None
              THEN forces_file.CL ELSE read.cl
        cd == IF forces_file.exists /\ forces_file.CD # None
              THEN forces_file.CD ELSE read.cd
    IN  IF cl = None \/ cd = None
        THEN [ raised |-> TRUE, coefficients |-> None ]
        ELSE [ raised |-> FALSE,
               coefficients |-> << AerodynamicCoefficients(cl[1], cd[1]) >> ]

\* process.kill(), line 93: SIGKILL is sent to a child that has not ended.
\* kill() returns when the signal is sent; the child ends later, and
\* nothing waits for it (no process.wait()).
kill(child) == IF child = "running" THEN "signalled" ELSE child

process_failed_positive_only(returncode) == returncode > 0

\* the exit status Popen reports for a child ended by SIGKILL
SIGKILL == -9

\* line 99: process.returncode != 0
process_failed(returncode) == returncode # 0

\* the evaluation before _evaluate is first called
SolverIdle(timeout) ==
    [ timeout_seconds |-> timeout,   \* config.timeout_seconds, 0 for None
      pc |-> "idle",                 \* position in evaluate_design
      calls |-> 0,                   \* _evaluate calls so far
      design_id |-> "",              \* generate_geometry: design_id
      case_id |-> "",                \* evaluate_design: case_id
      designs |-> {},                \* the design ids exports are named by
      case_dirs |-> {},              \* the directories under working_directory
      child |-> "none",              \* "none", "running", "signalled" (SIGKILL
                                     \* sent, not ended yet), "exited", "killed"
      status |-> 0,                  \* the exit status of a child that ended
      written |-> 0,                 \* lines written to the pipe, by the
                                     \* child or by a process it started
      pending |-> 0,                 \* lines of the pipe not read yet
      pipe |-> "none",               \* "open" while a process holds the write
                                     \* end of the pipe, "eof" when none does,
                                     \* "closed" after process.stdout.close()
      line |-> "",                   \* line, as readline() returned it
      stdout_lines |-> 0,            \* len(stdout_lines)
      elapsed |-> 0,                 \* time.time() - start_time
      history_file |-> [ exists |-> FALSE, has_CL |-> FALSE, has_CD |-> FALSE,
                         rows |-> <<>> ],
      forces_file |-> [ exists |-> FALSE, CL |-> None, CD |-> None ],
      parsed |-> FALSE,              \* was _parse_results called
      outcome |-> "none",            \* "returned" or the exception raised
      coefficients |-> None,         \* the AerodynamicCoefficients returned
      diagnostic |-> None ]          \* the lines in the RuntimeError message

(***************************************************************************)
(* GeneticOptimizer, pure parts                                            *)
(***************************************************************************)
Abs(a) == IF a >= 0 THEN a ELSE -a

\* the objectives _objective does not raise ValueError for, line 152
SupportedObjectives == { "maximize_cl_cd", "minimize_cd", "target_cl" }

\* GeneticOptimizer._objective, for a supported objective
_objective(cfg, coefficients) ==
    IF cfg.objective = "maximize_cl_cd" THEN coefficients.cl_cd
    ELSE IF cfg.objective = "minimize_cd" THEN -coefficients.cd
    ELSE -Abs(coefficients.cl - cfg.target_cl)

\* the record _evaluate builds, lines 130-138
Record(cfg, hist, coefficients) ==
    [ generation |-> (Len(hist) \div cfg.population_size) + 1,
      cl |-> coefficients.cl,
      cd |-> coefficients.cd,
      cl_cd |-> coefficients.cl_cd ]

_append_history_rewrite(csv, record) ==
    [ exists |-> TRUE,
      lines |-> <<[kind |-> "header"],
                  [kind |-> "row", run |-> run, record |-> record]>> ]

_append_history_header_again(csv, record) ==
    [ exists |-> TRUE,
      lines |-> csv.lines \o
                <<[kind |-> "header"],
                  [kind |-> "row", run |-> run, record |-> record]>> ]

\* _append_history: the header when the file does not exist, then the row.
\* The field run is not in the file: it names the process that wrote the row.
_append_history(csv, record) ==
    [ exists |-> TRUE,
      lines |-> (IF csv.exists THEN csv.lines
                 ELSE <<[kind |-> "header"]>>)
                \o <<[kind |-> "row", run |-> run, record |-> record]>> ]

\* sorted(..., key=score, reverse=True) is stable: insert item after every
\* element whose score is >= its own
InsertDescLaterFirst(sorted, item, score) ==
    LET before == { i \in 1..Len(sorted) : score[sorted[i]] > score[item] }
        n == Cardinality(before)
    IN  SubSeq(sorted, 1, n) \o <<item>> \o SubSeq(sorted, n + 1, Len(sorted))

InsertDesc(sorted, item, score) ==
    LET before == { i \in 1..Len(sorted) : score[sorted[i]] >= score[item] }
        n == Cardinality(before)
    IN  SubSeq(sorted, 1, n) \o <<item>> \o SubSeq(sorted, n + 1, Len(sorted))

RECURSIVE SortedDesc(_, _)
\* the indices 1..n ordered as sorted(zip(population, fitness), ...) orders them
SortedDesc(n, score) ==
    IF n = 0 THEN <<>>
    ELSE InsertDesc(SortedDesc(n - 1, score), n, score)

Scores(fit) == [ i \in 1..Len(fit) |-> fit[i].score ]

\* the slice seq[:n] of Python
Prefix(seq, n) ==
    SubSeq(seq, 1, IF n >= 0 THEN Min(n, Len(seq)) ELSE Max(Len(seq) + n, 0))

_elitism_least_fit(cfg, pop, fit) ==
    LET order == SortedDesc(Len(pop), Scores(fit))
        ranked == [ i \in 1..Min(Max(cfg.elitism, 0), Len(pop)) |->
                      order[Len(pop) + 1 - i] ]
    IN  [ i \in 1..Len(ranked) |-> pop[ranked[i]] ]

_elitism_one_fewer(cfg, pop, fit) ==
    LET ranked == Prefix(SortedDesc(Len(pop), Scores(fit)), cfg.elitism - 1)
    IN  [ i \in 1..Len(ranked) |-> pop[ranked[i]] ]

\* GeneticOptimizer._elitism
_elitism(cfg, pop, fit) ==
    LET ranked == Prefix(SortedDesc(Len(pop), Scores(fit)), cfg.elitism)
    IN  [ i \in 1..Len(ranked) |-> pop[ranked[i]] ]

\* random.sample(range(n), k): the sequences of k distinct indices
Samples(n, k) ==
    { s \in [1..k -> 1..n] : \A i, j \in 1..k : i # j => s[i] # s[j] }

RECURSIVE FirstMax(_, _, _)
\* max(seq, key): the first element of seq[from..] with the largest key
FirstMax(seq, key, from) ==
    IF from = Len(seq) THEN seq[from]
    ELSE LET rest == FirstMax(seq, key, from + 1)
         IN  IF key[seq[from]] >= key[rest] THEN seq[from] ELSE rest

_select_first_drawn(pop, fit, draw) == pop[draw[1]]

\* GeneticOptimizer._select, given the indices drawn for participants
_select(pop, fit, draw) ==
    pop[FirstMax(draw, Scores(fit), 1)]

pivot_range_from_zero(n) == 0..(n - 1)

\* line 178: the values of random.randint(1, len(self.variables) - 1),
\* which raises ValueError when there is none
pivot_range(n) == 1..(n - 1)

crossover_child_pivot_off_by_one(first, second, pivot) ==
    [ k \in 1..Len(first) |-> IF k < pivot THEN first[k] ELSE second[k] ]

\* one offspring of _crossover, lines 180-181: idx < pivot, idx from 0
crossover_child(first, second, pivot) ==
    [ k \in 1..Len(first) |-> IF k - 1 < pivot THEN first[k] ELSE second[k] ]

\* GeneticOptimizer._mutate; draws[k] = <<random.random(), random.gauss()>>
_mutate(cfg, vs, individual, draws) ==
    [ k \in 1..Len(vs) |->
        IF draws[k][1] < cfg.mutation_rate
        THEN clamp(vs[k], individual[k] + draws[k][2])
        ELSE individual[k] ]

\* what _mutate draws for one gene: random.random(), and random.gauss()
\* only when the first draw is below the rate (0 stands for no second draw)
GeneDraws(cfg) ==
    { d \in Uniform01 \X (Deltas \cup {0}) :
        (d[1] < cfg.mutation_rate) <=> (d[2] # 0) }

MutationDraws(cfg, vs) == [ 1..Len(vs) -> GeneDraws(cfg) ]

truncate_nothing(cfg, next) == next

\* line 96: next_population[: population_size]
truncate(cfg, next) == Prefix(next, cfg.population_size)

loop_one_more(cfg, g) == g <= cfg.generations

\* line 82: range(self.config.generations) has a value after g iterations
loop_continues(cfg, g) == g < cfg.generations

\* line 109: max(range(len(fitness)), key=...)
best_index(fit) ==
    FirstMax([ i \in 1..Len(fit) |-> i ], Scores(fit), 1)

(***************************************************************************)
(* The process                                                             *)
(***************************************************************************)
NoIndividual == <<>>
NoCross == [applied |-> FALSE, pivot |-> 0]
NoResult == [returned |-> FALSE]

\* no _select call is in progress
NoDraw == <<>>

Fresh ==
    /\ pc = "start"
    /\ population = <<>>
    /\ fitness = <<>>
    /\ generation = 0
    /\ next_population = <<>>
    /\ parent_a = NoIndividual
    /\ parent_b = NoIndividual
    /\ child_a = NoIndividual
    /\ child_b = NoIndividual
    /\ crossed = NoCross
    /\ participants = NoDraw
    /\ history = <<>>
    /\ evaluator_calls = 0
    /\ result = NoResult
    /\ error = "none"

DefaultConfigs == { c \in ValidConfigs : c.objective = DefaultObjective }

\* the state after main.py has built the components: no ledger file yet,
\* the visualizer enabled (main.py line 98), a solver with one of the
\* budgets timeouts
\* main.py:147-150 with no random_seed configured: random.seed is not called
Unseeded == [seed |-> None, process |-> <<>>]

\* no dict object allocated yet
NoHeap == [pc |-> "none"]

\* the components main builds, lines 152-157
Components(configs, vs, timeouts) ==
    /\ config \in configs
    /\ variables = vs
    /\ Fresh
    /\ history_csv = [exists |-> FALSE, lines |-> <<>>]
    /\ run = 1
    /\ visualizer = "enabled"
    /\ \E t \in timeouts : solver = SolverIdle(t)

ConstructedWith(configs, vs, timeouts) ==
    /\ Components(configs, vs, timeouts)
    /\ seeded = Unseeded
    /\ heap = NoHeap

Constructed(configs, vs) == ConstructedWith(configs, vs, {TimeoutBudget})

Init ==
    Constructed({ c \in DefaultConfigs : c.population_size <= SmallPopulation },
                TwoVariables)

\* line 79
RandomPopulation ==
    /\ pc = "start"
    /\ population' \in [1..config.population_size -> _random_individual(variables)]
    /\ fitness' = <<>>
    /\ pc' = "evaluate_initial"
    /\ UNCHANGED <<config, variables, visualizer, solver, seeded, heap,
                   generation, next_population, parent_a,
                   parent_b, child_a, child_b, crossed, participants, history, history_csv,
                   evaluator_calls, result, error, run>>

Evaluating == pc \in {"evaluate_initial", "evaluate"}

AfterEvaluation ==
    IF pc = "evaluate_initial"
    THEN (IF loop_continues(config, 0) THEN "elitism" ELSE "extract")
    ELSE "report"

\* _evaluate of population[Len(fitness) + 1], the solver's files holding
\* out = <<cl, cd>>
EvaluateWith(out) ==
    /\ Evaluating
    /\ Len(fitness) < Len(population)
    /\ LET coefficients == AerodynamicCoefficients(out[1], out[2])
           score == _objective(config, coefficients)
           record == Record(config, history, coefficients)
       IN  /\ config.objective \in SupportedObjectives
           /\ history' = Append(history, record)
           /\ history_csv' = _append_history(history_csv, record)
           /\ fitness' = Append(fitness, [score |-> score, coefficients |-> coefficients])
    /\ evaluator_calls' = evaluator_calls + 1
    /\ pc' = IF Len(fitness') = Len(population) THEN AfterEvaluation ELSE pc
    /\ UNCHANGED <<config, variables, visualizer, solver, seeded, heap,
                   population, generation, next_population,
                   parent_a, parent_b, child_a, child_b, crossed, participants, result,
                   error, run>>

\* _evaluate, the solver succeeding with any of its outputs
EvaluateSuccess ==
    /\ Evaluating
    /\ \E out \in SolverOutputs : EvaluateWith(out)

\* evaluate_design raising: nothing catches it in _evaluate or optimise
Raise(exception) ==
    /\ pc' = "raised"
    /\ error' = exception
    /\ UNCHANGED <<config, variables, visualizer, solver, seeded, heap,
                   population, fitness, generation,
                   next_population, parent_a, parent_b, child_a, child_b,
                   crossed, participants, history, history_csv, result, run>>

\* su2_interface.py lines 92-94: the budget elapsed, the child is killed
EvaluateTimeout ==
    /\ Evaluating
    /\ Len(fitness) < Len(population)
    /\ evaluator_calls' = evaluator_calls + 1
    /\ Raise("TimeoutError")

\* su2_interface.py lines 99-103: the solver's return code is not 0
EvaluateProcessFailure ==
    /\ Evaluating
    /\ Len(fitness) < Len(population)
    /\ evaluator_calls' = evaluator_calls + 1
    /\ Raise("RuntimeError: returncode")

\* su2_interface.py lines 168-169: no cl or no cd in the output files
EvaluateParseFailure ==
    /\ Evaluating
    /\ Len(fitness) < Len(population)
    /\ evaluator_calls' = evaluator_calls + 1
    /\ Raise("RuntimeError: parse")

\* _append_history raising OSError, lines 197-201: the file as it is left
\* when open() raises (unchanged), when open() has created or opened it and
\* nothing more reaches it, and when the output is cut: inside the row, or,
\* for a file that did not exist, inside the header, between the header and
\* the row, or inside the row that follows the header
_append_history_raising(csv) ==
    LET partial == [kind |-> "partial", run |-> run]
        header == [kind |-> "header"]
    IN  { csv,
          [ exists |-> TRUE, lines |-> csv.lines ],
          [ exists |-> TRUE, lines |-> csv.lines \o <<partial>> ] }
        \cup (IF csv.exists THEN {}
              ELSE { [ exists |-> TRUE, lines |-> <<header>> ],
                     [ exists |-> TRUE, lines |-> <<header, partial>> ] })

\* _evaluate with _append_history (line 140) raising OSError: the record
\* is in self._history already (line 139), _evaluate does not return and
\* nothing catches the exception
EvaluateLedgerFailure ==
    /\ Evaluating
    /\ Len(fitness) < Len(population)
    /\ config.objective \in SupportedObjectives
    /\ \E out \in SolverOutputs :
        history' = Append(history,
                          Record(config, history, AerodynamicCoefficients(out[1], out[2])))
    /\ history_csv' \in _append_history_raising(history_csv)
    /\ evaluator_calls' = evaluator_calls + 1
    /\ pc' = "raised"
    /\ error' = "OSError: history_csv"
    /\ UNCHANGED <<config, variables, visualizer, solver, seeded, heap,
                   population, fitness, generation,
                   next_population, parent_a, parent_b, child_a, child_b,
                   crossed, participants, result, run>>

\* line 85
Elitism ==
    /\ pc = "elitism"
    /\ next_population' = _elitism(config, population, fitness)
    /\ pc' = IF Len(next_population') < config.population_size
             THEN "select" ELSE "replace"
    /\ UNCHANGED <<config, variables, visualizer, solver, seeded, heap,
                   population, fitness, generation,
                   parent_a, parent_b, child_a, child_b, crossed, participants, history,
                   history_csv, evaluator_calls, result, error, run>>

\* lines 88-89, _select raising nothing (see SelectValueError)
Select ==
    /\ pc = "select"
    /\ config.tournament_size > 0
    /\ \E pa, pb \in Samples(Len(population), config.tournament_size) :
        /\ parent_a' = _select(population, fitness, pa)
        /\ parent_b' = _select(population, fitness, pb)
        /\ participants' = <<pa, pb>>
    /\ pc' = "crossover"
    /\ UNCHANGED <<config, variables, visualizer, solver, seeded, heap,
                   population, fitness, generation,
                   next_population, child_a, child_b, crossed, history,
                   history_csv, evaluator_calls, result, error, run>>

\* line 90, _crossover line 176-177: the parents pass through as copies
CrossoverPass ==
    /\ pc = "crossover"
    /\ \E u \in Uniform01 : u > config.crossover_rate
    /\ child_a' = parent_a
    /\ child_b' = parent_b
    /\ crossed' = NoCross
    /\ participants' = NoDraw
    /\ pc' = "mutate_a"
    /\ UNCHANGED <<config, variables, visualizer, solver, seeded, heap,
                   population, fitness, generation,
                   next_population, parent_a, parent_b, history, history_csv,
                   evaluator_calls, result, error, run>>

\* line 90, _crossover lines 178-182
CrossoverApply ==
    /\ pc = "crossover"
    /\ \E u \in Uniform01 : ~(u > config.crossover_rate)
    /\ \E pivot \in pivot_range(Len(variables)) :
        /\ child_a' = crossover_child(parent_a, parent_b, pivot)
        /\ child_b' = crossover_child(parent_b, parent_a, pivot)
        /\ crossed' = [applied |-> TRUE, pivot |-> pivot]
        /\ participants' = NoDraw
    /\ pc' = "mutate_a"
    /\ UNCHANGED <<config, variables, visualizer, solver, seeded, heap,
                   population, fitness, generation,
                   next_population, parent_a, parent_b, history, history_csv,
                   evaluator_calls, result, error, run>>

\* line 91
MutateA ==
    /\ pc = "mutate_a"
    /\ \E draws \in MutationDraws(config, variables) :
        child_a' = _mutate(config, variables, child_a, draws)
    /\ pc' = "mutate_b"
    /\ UNCHANGED <<config, variables, visualizer, solver, seeded, heap,
                   population, fitness, generation,
                   next_population, parent_a, parent_b, child_b, crossed, participants,
                   history, history_csv, evaluator_calls, result, error, run>>

\* lines 92-93, and the loop test of line 87.  The locals of the loop body
\* are dead once line 93 has run (the next iteration assigns each of them
\* before it reads it), so they are cleared.
MutateB ==
    /\ pc = "mutate_b"
    /\ \E draws \in MutationDraws(config, variables) :
        next_population' = next_population \o
            <<child_a, _mutate(config, variables, child_b, draws)>>
    /\ parent_a' = NoIndividual
    /\ parent_b' = NoIndividual
    /\ child_a' = NoIndividual
    /\ child_b' = NoIndividual
    /\ crossed' = NoCross
    /\ participants' = NoDraw
    /\ pc' = IF Len(next_population') < config.population_size
             THEN "select" ELSE "replace"
    /\ UNCHANGED <<config, variables, visualizer, solver, seeded, heap,
                   population, fitness, generation,
                   history, history_csv, evaluator_calls, result, error, run>>

\* line 96, and the start of line 97; next_population is dead from here on
Replace ==
    /\ pc = "replace"
    /\ population' = truncate(config, next_population)
    /\ fitness' = <<>>
    /\ next_population' = <<>>
    /\ pc' = "evaluate"
    /\ UNCHANGED <<config, variables, visualizer, solver, seeded, heap, generation, parent_a,
                   parent_b, child_a, child_b, crossed, participants, history, history_csv,
                   evaluator_calls, result, error, run>>

\* lines 99-107 with visualizer.update returning, and the next value of
\* the loop variable
Report ==
    /\ pc = "report"
    /\ generation' = generation + 1
    /\ pc' = IF loop_continues(config, generation') THEN "elitism" ELSE "extract"
    /\ UNCHANGED <<config, variables, visualizer, solver, seeded, heap,
                   population, fitness, next_population,
                   parent_a, parent_b, child_a, child_b, crossed, participants, history,
                   history_csv, evaluator_calls, result, error, run>>

\* line 101: visualizer.update raises (figure.savefig cannot write the
\* image); nothing catches it in optimise
VisualizerFailure ==
    /\ pc = "report"
    /\ visualizer = "enabled"
    /\ evaluator_calls' = evaluator_calls
    /\ Raise("OSError")

\* lines 109-112
Extract ==
    /\ pc = "extract"
    /\ LET best == best_index(fitness)
       IN  result' = [ returned |-> TRUE,
                       individual |-> population[best],
                       coefficients |-> fitness[best].coefficients,
                       score |-> fitness[best].score ]
    /\ pc' = "done"
    /\ UNCHANGED <<config, variables, visualizer, solver, seeded, heap,
                   population, fitness, generation,
                   next_population, parent_a, parent_b, child_a, child_b,
                   crossed, participants, history, history_csv, evaluator_calls, error, run>>

\* a new process: __init__ again, _history empty, the file as it was left
Restart ==
    /\ pc \in {"done", "raised"}
    /\ run < MaxRuns
    /\ Len(history_csv.lines) <= MaxPriorLines
    /\ run' = run + 1
    /\ pc' = "start"
    /\ population' = <<>>
    /\ fitness' = <<>>
    /\ generation' = 0
    /\ next_population' = <<>>
    /\ parent_a' = NoIndividual
    /\ parent_b' = NoIndividual
    /\ child_a' = NoIndividual
    /\ child_b' = NoIndividual
    /\ crossed' = NoCross
    /\ participants' = NoDraw
    /\ history' = <<>>
    /\ evaluator_calls' = 0
    /\ result' = NoResult
    /\ error' = "none"
    /\ UNCHANGED <<config, variables, visualizer, solver, seeded, heap, history_csv>>

Next ==
    \/ RandomPopulation
    \/ EvaluateSuccess
    \/ EvaluateTimeout
    \/ EvaluateProcessFailure
    \/ EvaluateParseFailure
    \/ Elitism
    \/ Select
    \/ CrossoverPass
    \/ CrossoverApply
    \/ MutateA
    \/ MutateB
    \/ Replace
    \/ Report
    \/ VisualizerFailure
    \/ Extract

Spec == Init /\ [][Next]_vars

\* the runs in which writing the ledger file can fail as well
NextLedgerFailure ==
    \/ Next
    \/ EvaluateLedgerFailure

SpecLedgerFailure == Init /\ [][NextLedgerFailure]_vars

(***************************************************************************)
(* The same command started again on the ledger file an earlier process    *)
(* left behind.                                                            *)
(***************************************************************************)
RestartConfigs ==
    { c \in ValidConfigs :
        /\ c.population_size = 2
        /\ c.generations = 1
        /\ c.tournament_size = 2
        /\ c.elitism = 1 }

InitRestart == Constructed(RestartConfigs, TwoVariables)

NextRestart ==
    \/ Next
    \/ Restart

SpecRestart == InitRestart /\ [][NextRestart]_vars

\* the same, for the one configuration BaseConfig
InitLedger == Constructed({BaseConfig}, TwoVariables)

SpecLedger == InitLedger /\ [][NextRestart]_vars

(***************************************************************************)
(* Populations of up to MaxPopulation individuals.                         *)
(***************************************************************************)
InitWide == Constructed(DefaultConfigs, TwoVariables)

SpecWide == InitWide /\ [][Next]_vars

(***************************************************************************)
(* Three design variables, so that the pivot of _crossover has a choice.   *)
(***************************************************************************)
GenesConfigs ==
    { c \in DefaultConfigs :
        /\ c.population_size = 2
        /\ c.generations = 1
        /\ c.elitism <= 1 }

InitGenes == Constructed(GenesConfigs, ThreeVariables)

SpecGenes == InitGenes /\ [][Next]_vars

(***************************************************************************)
(* Three individuals and one pair of offspring per generation: a          *)
(* tournament of two does not see the whole population.                    *)
(***************************************************************************)
TournamentConfigs ==
    { c \in DefaultConfigs :
        /\ c.population_size = 3
        /\ c.generations = 1
        /\ c.elitism = 1 }

InitTournament == Constructed(TournamentConfigs, TwoVariables)

SpecTournament == InitTournament /\ [][Next]_vars

(***************************************************************************)
(* The crossover rates 0.0 and 1.0.                                        *)
(***************************************************************************)
RatesConfigs ==
    { [BaseConfig EXCEPT !.crossover_rate = 0],
      [BaseConfig EXCEPT !.crossover_rate = 10] }

InitRates == Constructed(RatesConfigs, TwoVariables)

SpecRates == InitRates /\ [][Next]_vars

(***************************************************************************)
(* A design space of one variable, next to one of two.                     *)
(***************************************************************************)
OneVariable == << [minimum |-> 0, maximum |-> 1] >>

InitSingle ==
    \/ Constructed({BaseConfig}, OneVariable)
    \/ Constructed({BaseConfig}, TwoVariables)

\* _crossover line 178: random.randint raises ValueError for an empty
\* range; nothing catches it in optimise
CrossoverValueError ==
    /\ pc = "crossover"
    /\ \E u \in Uniform01 : ~(u > config.crossover_rate)
    /\ pivot_range(Len(variables)) = {}
    /\ evaluator_calls' = evaluator_calls
    /\ Raise("ValueError: randint")

NextSingle ==
    \/ Next
    \/ CrossoverValueError

SpecSingle == InitSingle /\ [][NextSingle]_vars

(***************************************************************************)
(* The optimiser built with a reporter that draws (visualization.enabled,  *)
(* the default), with one whose update returns at once, or with none.      *)
(***************************************************************************)
Visualizers == {"enabled", "disabled", "none"}

InitReporter ==
    /\ config \in { c \in DefaultConfigs : c.population_size <= SmallPopulation }
    /\ variables = TwoVariables
    /\ Fresh
    /\ history_csv = [exists |-> FALSE, lines |-> <<>>]
    /\ run = 1
    /\ visualizer \in Visualizers
    /\ solver = SolverIdle(TimeoutBudget)
    /\ seeded = Unseeded
    /\ heap = NoHeap

SpecReporter == InitReporter /\ [][Next]_vars

(***************************************************************************)
(* An evaluator that is a function of the individual and never fails: a    *)
(* stub solver returning cl = the sum of the genes and cd = 1.             *)
(***************************************************************************)
RECURSIVE SumOfGenes(_, _)
SumOfGenes(individual, n) ==
    IF n = 0 THEN 0 ELSE SumOfGenes(individual, n - 1) + individual[n]

StubEvaluator(individual) == << SumOfGenes(individual, Len(individual)), 1 >>

\* _evaluate with the stub solver
EvaluateStub ==
    /\ Evaluating
    /\ Len(fitness) < Len(population)
    /\ EvaluateWith(StubEvaluator(population[Len(fitness) + 1]))

NextStub ==
    \/ RandomPopulation
    \/ EvaluateStub
    \/ Elitism
    \/ Select
    \/ CrossoverPass
    \/ CrossoverApply
    \/ MutateA
    \/ MutateB
    \/ Replace
    \/ Report
    \/ VisualizerFailure
    \/ Extract

SpecStub == Init /\ [][NextStub]_vars

(***************************************************************************)
(* Two processes main starts with the same configuration and the same      *)
(* random_seed (main.py:147-150), each with the stub evaluator.  After     *)
(* random.seed the values the random module returns are a function of the  *)
(* seed and of the calls made, so the two processes get the same value     *)
(* from their k-th call; which value that is the model leaves open, as it  *)
(* does for the unseeded run.  The processes are followed side by side:    *)
(* one step is the same operation of optimise in both.  uuid.uuid4 reads   *)
(* the operating system's random source, which random.seed does not set:   *)
(* each process draws its own design_id.                                   *)
(***************************************************************************)
Seeds == {1, 2}
Processes == {1, 2}

\* a process after main.py:150 random.seed(random_seed)
SeededFresh ==
    [ pc |-> "start", population |-> <<>>, fitness |-> <<>>, generation |-> 0,
      next_population |-> <<>>, parent_a |-> NoIndividual,
      parent_b |-> NoIndividual, child_a |-> NoIndividual,
      child_b |-> NoIndividual, ledger |-> <<>> ]

InitSeeded ==
    /\ Components({BaseConfig}, TwoVariables, {TimeoutBudget})
    /\ heap = NoHeap
    /\ \E seed \in Seeds :
        seeded = [seed |-> seed, process |-> [ p \in Processes |-> SeededFresh ]]

\* every process is at position at
SeededAt(at) == \A p \in Processes : seeded.process[p].pc = at

\* the processes change to next
SeededStep(next) ==
    /\ seeded' = [seeded EXCEPT !.process = next]
    /\ UNCHANGED <<config, variables, visualizer, solver, heap, pc, population,
                   fitness, generation, next_population, parent_a, parent_b,
                   child_a, child_b, crossed, participants, history, history_csv,
                   evaluator_calls, result, error, run>>

\* line 79: the same values from random.uniform in both processes
SeededPopulation ==
    /\ SeededAt("start")
    /\ \E individuals \in [1..config.population_size ->
                             _random_individual(variables)] :
        SeededStep([ p \in Processes |->
            [seeded.process[p] EXCEPT !.population = individuals,
                                      !.pc = "evaluate"] ])

\* _evaluate in each process: generate_geometry draws the design_id
\* (model_generator.py:90), the stub evaluator gives the coefficients
SeededEvaluated(self, design_id) ==
    LET individual == self.population[Len(self.fitness) + 1]
        out == StubEvaluator(individual)
        coefficients == AerodynamicCoefficients(out[1], out[2])
        fields == Record(config, self.ledger, coefficients)
        record == [ generation |-> fields.generation,
                    design_id |-> design_id,
                    cl |-> fields.cl, cd |-> fields.cd,
                    cl_cd |-> fields.cl_cd,
                    individual |-> individual ]
    IN  [self EXCEPT
            !.fitness = Append(@, [score |-> _objective(config, coefficients),
                                   coefficients |-> coefficients]),
            !.ledger = Append(@, record)]

SeededEvaluate ==
    /\ SeededAt("evaluate")
    /\ \A p \in Processes :
        Len(seeded.process[p].fitness) < Len(seeded.process[p].population)
    /\ \E design_id \in [Processes -> Identifiers] :
        SeededStep([ p \in Processes |->
            SeededEvaluated(seeded.process[p], design_id[p]) ])

\* the evaluation round of every process is complete
SeededRoundDone ==
    /\ SeededAt("evaluate")
    /\ \A p \in Processes :
        Len(seeded.process[p].fitness) = Len(seeded.process[p].population)

\* lines 82-85: one more generation is due
SeededElitism ==
    /\ SeededRoundDone
    /\ \A p \in Processes : loop_continues(config, seeded.process[p].generation)
    /\ SeededStep([ p \in Processes |->
        LET self == seeded.process[p]
            elite == _elitism(config, self.population, self.fitness)
        IN  [self EXCEPT
                !.next_population = elite,
                !.pc = IF Len(elite) < config.population_size
                       THEN "select" ELSE "replace"] ])

\* lines 88-89: the same random.sample results in both processes
SeededSelect ==
    /\ SeededAt("select")
    /\ \E pa, pb \in Samples(config.population_size, config.tournament_size) :
        SeededStep([ p \in Processes |->
            LET self == seeded.process[p]
            IN  [self EXCEPT
                    !.parent_a = _select(self.population, self.fitness, pa),
                    !.parent_b = _select(self.population, self.fitness, pb),
                    !.pc = "crossover"] ])

\* line 90, the same random.random() above the rate in both processes
SeededCrossoverPass ==
    /\ SeededAt("crossover")
    /\ \E u \in Uniform01 : u > config.crossover_rate
    /\ SeededStep([ p \in Processes |->
        LET self == seeded.process[p]
        IN  [self EXCEPT !.child_a = self.parent_a,
                         !.child_b = self.parent_b,
                         !.pc = "mutate_a"] ])

\* line 90, the same random.random() and random.randint in both processes
SeededCrossoverApply ==
    /\ SeededAt("crossover")
    /\ \E u \in Uniform01 : ~(u > config.crossover_rate)
    /\ \E pivot \in pivot_range(Len(variables)) :
        SeededStep([ p \in Processes |->
            LET self == seeded.process[p]
            IN  [self EXCEPT
                    !.child_a = crossover_child(self.parent_a, self.parent_b, pivot),
                    !.child_b = crossover_child(self.parent_b, self.parent_a, pivot),
                    !.pc = "mutate_a"] ])

\* line 91, first element: the same draws in both processes
SeededMutateA ==
    /\ SeededAt("mutate_a")
    /\ \E draws \in MutationDraws(config, variables) :
        SeededStep([ p \in Processes |->
            LET self == seeded.process[p]
            IN  [self EXCEPT
                    !.child_a = _mutate(config, variables, self.child_a, draws),
                    !.pc = "mutate_b"] ])

\* line 91, second element and the extend
SeededMutateB ==
    /\ SeededAt("mutate_b")
    /\ \E draws \in MutationDraws(config, variables) :
        SeededStep([ p \in Processes |->
            LET self == seeded.process[p]
                next == self.next_population \o
                        <<self.child_a,
                          _mutate(config, variables, self.child_b, draws)>>
            IN  [self EXCEPT
                    !.next_population = next,
                    !.parent_a = NoIndividual, !.parent_b = NoIndividual,
                    !.child_a = NoIndividual, !.child_b = NoIndividual,
                    !.pc = IF Len(next) < config.population_size
                           THEN "select" ELSE "replace"] ])

\* lines 96 and 82
SeededReplace ==
    /\ SeededAt("replace")
    /\ SeededStep([ p \in Processes |->
        LET self == seeded.process[p]
        IN  [self EXCEPT
                !.population = truncate(config, self.next_population),
                !.next_population = <<>>,
                !.fitness = <<>>,
                !.generation = @ + 1,
                !.pc = "evaluate"] ])

\* lines 109-112
SeededReturn ==
    /\ SeededRoundDone
    /\ \A p \in Processes : ~loop_continues(config, seeded.process[p].generation)
    /\ SeededStep([ p \in Processes |->
        [seeded.process[p] EXCEPT !.pc = "done"] ])

NextSeeded ==
    \/ SeededPopulation
    \/ SeededEvaluate
    \/ SeededElitism
    \/ SeededSelect
    \/ SeededCrossoverPass
    \/ SeededCrossoverApply
    \/ SeededMutateA
    \/ SeededMutateB
    \/ SeededReplace
    \/ SeededReturn

SpecSeeded == InitSeeded /\ [][NextSeeded]_vars

(***************************************************************************)
(* optimise over dict objects.  heap.objects[r] is the content of the dict *)
(* with reference r; population, next_population, the parents and the      *)
(* children hold references, as the Python names do; a ledger record holds *)
(* the values of the individual (its items, line 136), kept here with      *)
(* the reference they were read from.  The evaluator is the stub.          *)
(***************************************************************************)
HeapConfigs ==
    { [BaseConfig EXCEPT !.generations = g] : g \in 1..MaxGenerations }

NoReference == 0

copy_alias(objects, ref) == [objects |-> objects, ref |-> ref]

\* dict.copy() (lines 177 and 187): a new object with the items of ref
copy(objects, ref) ==
    [objects |-> Append(objects, objects[ref]), ref |-> Len(objects) + 1]

InitHeap ==
    /\ Components(HeapConfigs, TwoVariables, {TimeoutBudget})
    /\ seeded = Unseeded
    /\ heap = [ pc |-> "start", objects |-> <<>>, population |-> <<>>,
                fitness |-> <<>>, generation |-> 0, next_population |-> <<>>,
                parent_a |-> NoReference, parent_b |-> NoReference,
                child_a |-> NoReference, child_b |-> NoReference,
                crossed |-> FALSE, ledger |-> <<>> ]

\* the names of optimise change to next
HeapStep(next) ==
    /\ heap' = next
    /\ UNCHANGED <<config, variables, visualizer, solver, seeded, pc,
                   population, fitness, generation, next_population, parent_a,
                   parent_b, child_a, child_b, crossed, participants, history, history_csv,
                   evaluator_calls, result, error, run>>

\* line 79: population_size new dicts
HeapPopulation ==
    /\ heap.pc = "start"
    /\ \E individuals \in [1..config.population_size ->
                             _random_individual(variables)] :
        HeapStep([heap EXCEPT
            !.objects = individuals,
            !.population = [ i \in 1..config.population_size |-> i ],
            !.pc = "evaluate"])

\* _evaluate of population[Len(fitness) + 1]: the record takes the values
HeapEvaluate ==
    /\ heap.pc = "evaluate"
    /\ Len(heap.fitness) < Len(heap.population)
    /\ LET ref == heap.population[Len(heap.fitness) + 1]
           out == StubEvaluator(heap.objects[ref])
           coefficients == AerodynamicCoefficients(out[1], out[2])
       IN  HeapStep([heap EXCEPT
               !.fitness = Append(@, [score |-> _objective(config, coefficients),
                                      coefficients |-> coefficients]),
               !.ledger = Append(@, [ref |-> ref,
                                     individual |-> heap.objects[ref]])])

\* line 85: the elite are the dicts of the population themselves
HeapElitism ==
    /\ heap.pc = "evaluate"
    /\ Len(heap.fitness) = Len(heap.population)
    /\ loop_continues(config, heap.generation)
    /\ LET elite == _elitism(config, heap.population, heap.fitness)
       IN  HeapStep([heap EXCEPT
               !.next_population = elite,
               !.pc = IF Len(elite) < config.population_size
                      THEN "select" ELSE "replace"])

\* lines 88-89: _select returns population[best_idx], the dict itself
HeapSelect ==
    /\ heap.pc = "select"
    /\ \E pa, pb \in Samples(Len(heap.population), config.tournament_size) :
        HeapStep([heap EXCEPT
            !.parent_a = _select(heap.population, heap.fitness, pa),
            !.parent_b = _select(heap.population, heap.fitness, pb),
            !.pc = "crossover"])

\* line 177: return parent_a.copy(), parent_b.copy()
HeapCrossoverPass ==
    /\ heap.pc = "crossover"
    /\ \E u \in Uniform01 : u > config.crossover_rate
    /\ LET first == copy(heap.objects, heap.parent_a)
           second == copy(first.objects, heap.parent_b)
       IN  HeapStep([heap EXCEPT
               !.objects = second.objects,
               !.child_a = first.ref,
               !.child_b = second.ref,
               !.crossed = FALSE,
               !.pc = "mutate_a"])

\* lines 178-182: the two comprehensions build new dicts
HeapCrossoverApply ==
    /\ heap.pc = "crossover"
    /\ \E u \in Uniform01 : ~(u > config.crossover_rate)
    /\ \E pivot \in pivot_range(Len(variables)) :
        LET a == heap.objects[heap.parent_a]
            b == heap.objects[heap.parent_b]
        IN  HeapStep([heap EXCEPT
                !.objects = @ \o << crossover_child(a, b, pivot),
                                    crossover_child(b, a, pivot) >>,
                !.child_a = Len(heap.objects) + 1,
                !.child_b = Len(heap.objects) + 2,
                !.crossed = TRUE,
                !.pc = "mutate_a"])

\* _mutate(ref), lines 187-192: mutated = individual.copy(), then the
\* assignments mutated[name] = ... into that dict
HeapMutated(ref, draws) ==
    LET mutated == copy(heap.objects, ref)
    IN  [ objects |-> [mutated.objects EXCEPT ![mutated.ref] =
                          _mutate(config, variables, @, draws)],
          ref |-> mutated.ref ]

\* line 91, first element: _mutate(child_a)
HeapMutateA ==
    /\ heap.pc = "mutate_a"
    /\ \E draws \in MutationDraws(config, variables) :
        LET mutated == HeapMutated(heap.child_a, draws)
        IN  HeapStep([heap EXCEPT
                !.objects = mutated.objects,
                !.child_a = mutated.ref,
                !.pc = "mutate_b"])

\* line 91, second element and the extend
HeapMutateB ==
    /\ heap.pc = "mutate_b"
    /\ \E draws \in MutationDraws(config, variables) :
        LET mutated == HeapMutated(heap.child_b, draws)
            next == heap.next_population \o <<heap.child_a, mutated.ref>>
        IN  HeapStep([heap EXCEPT
                !.objects = mutated.objects,
                !.child_b = mutated.ref,
                !.next_population = next,
                !.pc = IF Len(next) < config.population_size
                       THEN "select" ELSE "replace"])

\* lines 96 and 82: the slice is a new list of the same dicts
HeapReplace ==
    /\ heap.pc = "replace"
    /\ HeapStep([heap EXCEPT
           !.population = truncate(config, heap.next_population),
           !.fitness = <<>>,
           !.generation = @ + 1,
           !.pc = "evaluate"])

\* lines 109-112
HeapReturn ==
    /\ heap.pc = "evaluate"
    /\ Len(heap.fitness) = Len(heap.population)
    /\ ~loop_continues(config, heap.generation)
    /\ HeapStep([heap EXCEPT !.pc = "done"])

NextHeap ==
    \/ HeapPopulation
    \/ HeapEvaluate
    \/ HeapElitism
    \/ HeapSelect
    \/ HeapCrossoverPass
    \/ HeapCrossoverApply
    \/ HeapMutateA
    \/ HeapMutateB
    \/ HeapReplace
    \/ HeapReturn

SpecHeap == InitHeap /\ [][NextHeap]_vars

(***************************************************************************)
(* Configurations section 6 of the specification rules out.  __init__ and  *)
(* main.py validate nothing, so the process starts with them.              *)
(***************************************************************************)
InvalidConfigs ==
    { [BaseConfig EXCEPT !.objective = "minimize_drag"],
      [BaseConfig EXCEPT !.tournament_size = 3],
      [BaseConfig EXCEPT !.tournament_size = 1],
      [BaseConfig EXCEPT !.tournament_size = 0],
      [BaseConfig EXCEPT !.elitism = 3] }

\* the second variable has its minimum above its maximum
ReversedVariables ==
    << [minimum |-> 0, maximum |-> 1], [minimum |-> 2, maximum |-> 1] >>

\* the second variable has its minimum equal to its maximum
PointVariables ==
    << [minimum |-> 0, maximum |-> 1], [minimum |-> 1, maximum |-> 1] >>

InitInvalid ==
    \/ Constructed(InvalidConfigs, TwoVariables)
    \/ Constructed({BaseConfig}, ReversedVariables)
    \/ Constructed({BaseConfig}, PointVariables)

\* _evaluate line 128: _objective raises ValueError, after evaluate_design
\* has returned the coefficients
EvaluateUnsupportedObjective ==
    /\ Evaluating
    /\ Len(fitness) < Len(population)
    /\ config.objective \notin SupportedObjectives
    /\ evaluator_calls' = evaluator_calls + 1
    /\ Raise("ValueError: objective")

\* _select lines 167-168: random.sample raises ValueError for a sample
\* larger than the population, max raises ValueError for an empty sample
SelectValueError ==
    /\ pc = "select"
    /\ \/ config.tournament_size > Len(population)
       \/ config.tournament_size <= 0
    /\ evaluator_calls' = evaluator_calls
    /\ Raise("ValueError: sample")

NextInvalid ==
    \/ Next
    \/ EvaluateUnsupportedObjective
    \/ SelectValueError

SpecInvalid == InitInvalid /\ [][NextInvalid]_vars

(***************************************************************************)
(* _evaluate step by step: generate_geometry draws the design id,          *)
(* evaluate_design draws the case id, starts the child and reads its       *)
(* output.  The child writes lines to the pipe and ends when it chooses    *)
(* to; the clock advances while the call is active.                        *)
(***************************************************************************)
optimizer_vars ==
    <<config, variables, visualizer, pc, population, fitness, generation,
      next_population, parent_a, parent_b, child_a, child_b, crossed, participants,
      history, history_csv, evaluator_calls, result, error, run,
      seeded, heap>>

\* with no budget (timeout_seconds None) and with one
InitSolver == ConstructedWith({BaseConfig}, TwoVariables, {0, TimeoutBudget})

\* model_generator.py line 90, su2_interface.py lines 53-82
StartEvaluation ==
    /\ \/ solver.pc = "idle"
       \/ solver.pc = "ended" /\ solver.outcome = "returned"
    /\ solver.calls < MaxCalls
    /\ \E d \in Identifiers, c \in Identifiers :
        solver' = [ SolverIdle(solver.timeout_seconds) EXCEPT
                      !.pc = "readline",
                      !.calls = solver.calls + 1,
                      !.design_id = d,
                      !.case_id = c,
                      !.designs = solver.designs \cup {d},
                      !.case_dirs = solver.case_dirs \cup {c},
                      !.child = "running",
                      !.pipe = "open" ]
    /\ UNCHANGED optimizer_vars

\* the child writes a line to stdout or stderr (one pipe, line 78)
ChildWrite ==
    /\ solver.child \in {"running", "signalled"}
    /\ solver.pipe = "open"
    /\ solver.written < MaxLines
    /\ solver' = [ solver EXCEPT !.written = @ + 1, !.pending = @ + 1 ]
    /\ UNCHANGED optimizer_vars

\* the child closes its stdout and stderr and keeps running
ChildCloseOutput ==
    /\ solver.child \in {"running", "signalled"}
    /\ solver.pipe = "open"
    /\ solver' = [ solver EXCEPT !.pipe = "eof" ]
    /\ UNCHANGED optimizer_vars

\* the child ends by itself; the pipe stays open when a process the child
\* started still holds its write end
ChildExit ==
    /\ solver.child \in {"running", "signalled"}
    /\ \E status \in ExitStatuses, held \in BOOLEAN :
        solver' = [ solver EXCEPT
                      !.child = "exited",
                      !.status = status,
                      !.pipe = IF @ = "open" /\ ~held THEN "eof" ELSE @ ]
    /\ UNCHANGED optimizer_vars

\* the SIGKILL of line 93 ends the child, some time after kill() returned;
\* the processes the child started are not signalled and may hold the pipe
ChildKilled ==
    /\ solver.child = "signalled"
    /\ \E held \in BOOLEAN :
        solver' = [ solver EXCEPT
                      !.child = "killed",
                      !.status = SIGKILL,
                      !.pipe = IF @ = "open" /\ ~held THEN "eof" ELSE @ ]
    /\ UNCHANGED optimizer_vars

\* a process the child started, holding the pipe after the child ended
\* (by itself or by the SIGKILL), writes a line to it
HolderWrite ==
    /\ solver.child \in {"exited", "killed"}
    /\ solver.pipe = "open"
    /\ solver.written < MaxLines
    /\ solver' = [ solver EXCEPT !.written = @ + 1, !.pending = @ + 1 ]
    /\ UNCHANGED optimizer_vars

\* the last process holding the write end of the pipe, started by a child
\* that has ended, closes it or ends
PipeReleased ==
    /\ solver.child \in {"exited", "killed"}
    /\ solver.pipe = "open"
    /\ solver' = [ solver EXCEPT !.pipe = "eof" ]
    /\ UNCHANGED optimizer_vars

\* a second passes during the call
Tick ==
    /\ solver.pc \notin {"idle", "ended"}
    /\ solver.elapsed < MaxElapsed
    /\ solver' = [ solver EXCEPT !.elapsed = @ + 1 ]
    /\ UNCHANGED optimizer_vars

\* lines 86-89: readline() returns the next line, or '' when the pipe is
\* empty and at end of file, whether the child runs or not; it blocks
\* while the pipe is empty and some process holds its write end
Readline ==
    /\ solver.pc = "readline"
    /\ \/ solver.pending > 0
       \/ solver.pipe = "eof"
    /\ solver' =
        IF solver.pending > 0
        THEN [ solver EXCEPT !.pending = @ - 1, !.line = "line",
                             !.stdout_lines = @ + 1, !.pc = "poll" ]
        ELSE [ solver EXCEPT !.line = "", !.pc = "poll" ]
    /\ UNCHANGED optimizer_vars

\* lines 90-91, and lines 95-97 when the loop breaks
Poll ==
    /\ solver.pc = "poll"
    /\ solver' =
        IF solver.child \in {"exited", "killed"} /\ solver.line = ""
        THEN [ solver EXCEPT !.pipe = "closed", !.pc = "returncode" ]
        ELSE [ solver EXCEPT !.pc = "timeout_check" ]
    /\ UNCHANGED optimizer_vars

\* lines 92-93
TimeoutCheck ==
    /\ solver.pc = "timeout_check"
    /\ solver' =
        IF solver.timeout_seconds # 0 /\ solver.elapsed > solver.timeout_seconds
        THEN [ solver EXCEPT !.child = kill(@), !.pc = "raise_timeout" ]
        ELSE [ solver EXCEPT !.pc = "readline" ]
    /\ UNCHANGED optimizer_vars

\* lines 94-97: the finally clause closes the pipe, TimeoutError leaves
RaiseTimeout ==
    /\ solver.pc = "raise_timeout"
    /\ solver' = [ solver EXCEPT !.pipe = "closed",
                                 !.outcome = "TimeoutError", !.pc = "ended" ]
    /\ UNCHANGED optimizer_vars

\* lines 99-103
CheckReturncode ==
    /\ solver.pc = "returncode"
    /\ solver' =
        IF process_failed(solver.status)
        THEN [ solver EXCEPT !.outcome = "RuntimeError: returncode",
                             !.diagnostic = << solver.stdout_lines >>,
                             !.pc = "ended" ]
        ELSE [ solver EXCEPT !.pc = "parse" ]
    /\ UNCHANGED optimizer_vars

\* lines 105-113, on the files the child left
ParseResults ==
    /\ solver.pc = "parse"
    /\ \E history_file \in HistoryFiles, forces_file \in ForcesFiles :
        LET parsed == _parse_results(history_file, forces_file)
        IN  solver' = [ solver EXCEPT
                          !.history_file = history_file,
                          !.forces_file = forces_file,
                          !.parsed = TRUE,
                          !.outcome = IF parsed.raised THEN "RuntimeError: parse"
                                      ELSE "returned",
                          !.coefficients = parsed.coefficients,
                          !.pc = "ended" ]
    /\ UNCHANGED optimizer_vars

\* the steps of the process that called evaluate_design
ParentStep ==
    \/ Readline
    \/ Poll
    \/ TimeoutCheck
    \/ RaiseTimeout
    \/ CheckReturncode
    \/ ParseResults

NextSolver ==
    \/ StartEvaluation
    \/ ChildWrite
    \/ ChildCloseOutput
    \/ ChildExit
    \/ ChildKilled
    \/ HolderWrite
    \/ PipeReleased
    \/ Tick
    \/ Readline
    \/ Poll
    \/ TimeoutCheck
    \/ RaiseTimeout
    \/ CheckReturncode
    \/ ParseResults

SpecSolver == InitSolver /\ [][NextSolver]_vars

\* the calling process is scheduled: a step of it that stays possible is
\* taken, and a SIGKILL that was sent ends the child.  Nothing else makes
\* the child write or end.
SpecSolverFair == SpecSolver /\ WF_vars(ParentStep) /\ WF_vars(ChildKilled)

(***************************************************************************)
(* Properties                                                              *)
(***************************************************************************)
\* the fitness _evaluate computed for a ledger record
RecordScore(record) == _objective(config, record)

\* the data rows of the ledger file, and those the running process wrote
Rows == SelectSeq(history_csv.lines, LAMBDA line : line.kind = "row")
OwnRows == SelectSeq(Rows, LAMBDA line : line.run = run)

Rounds == config.generations + 1

InRange(individual) ==
    \A k \in 1..Len(individual) :
        variables[k].minimum < variables[k].maximum =>
            /\ variables[k].minimum <= individual[k]
            /\ individual[k] <= variables[k].maximum

\* C1: when optimise has returned, every evaluation recorded during the run
\* has a fitness <= the fitness of the returned individual.
ReturnsGlobalBest ==
    pc = "done" =>
        \A i \in 1..Len(history) : RecordScore(history[i]) <= result.score

\* C2: a timeout of the evaluator for an individual does not raise out of
\* the evaluation round: no run is ended by a TimeoutError.
TimeoutIsIsolated ==
    error = "TimeoutError" => pc # "raised"

\* C3: a run in which every evaluator call made so far has timed out still
\* completes: it is not ended by the exception.
AllTimeoutsRunCompletes ==
    (evaluator_calls >= 1 /\ Len(history) = 0 /\ Len(OwnRows) = 0) =>
        pc # "raised"

\* C4: the number of ledger entries (in memory and in the file) equals the
\* number of evaluator calls made, whatever the outcome of each call.
LedgerEntryPerEvaluatorCall ==
    /\ Len(history) = evaluator_calls
    /\ Len(OwnRows) = evaluator_calls

PopulationSizeExact ==
    /\ pc # "start" => Len(population) = config.population_size
    /\ pc = "replace" =>
        /\ Len(next_population) >= config.population_size
        /\ Len(next_population) <= config.population_size + 1
        /\ (Len(next_population) - config.elitism) % 2 = 0

\* a replaced population whose last pair of offspring overshot the size
TruncatedAfterOvershoot ==
    /\ pc = "evaluate"
    /\ config.elitism < config.population_size
    /\ (config.population_size - config.elitism) % 2 = 1
    /\ Len(population) = config.population_size

\* j ranks before i: a higher fitness, or the same and evaluated earlier
RanksBefore(fit, j, i) ==
    \/ fit[j].score > fit[i].score
    \/ fit[j].score = fit[i].score /\ j < i

\* the index of the individual of rank r (1 is the best)
IndexOfRank(fit, r) ==
    CHOOSE i \in 1..Len(fit) :
        Cardinality({ j \in 1..Len(fit) : RanksBefore(fit, j, i) }) = r - 1

\* C7: the replacement puts the individual of rank r of the current
\* generation (fitness descending, ties to the earlier evaluated), for every
\* r in 1..elitism, into the next generation with its genes unchanged.
ElitesCarriedOver ==
    [][ pc = "replace" =>
            \A r \in 1..config.elitism :
                population'[r] = population[IndexOfRank(fitness, r)] ]_vars

\* two elites kept out of three individuals, the best two tied and different
ElitesKeptWithTie ==
    /\ pc = "replace"
    /\ config.elitism = 2
    /\ \E i, j \in 1..Len(population) :
        /\ i < j
        /\ fitness[i].score = fitness[j].score
        /\ \A k \in 1..Len(population) : fitness[k].score <= fitness[i].score
        /\ population[i] # population[j]
        /\ next_population[1] = population[i]
        /\ next_population[2] = population[j]

\* C8: every gene of every individual held (population, next population,
\* parents, offspring before and after mutation) lies within the bounds of
\* its variable, for every variable with minimum < maximum.
GenesWithinBounds ==
    /\ \A i \in 1..Len(population) : InRange(population[i])
    /\ \A i \in 1..Len(next_population) : InRange(next_population[i])
    /\ InRange(parent_a) /\ InRange(parent_b)
    /\ InRange(child_a) /\ InRange(child_b)

\* child_a after a mutation that overshot the maximum: both parents hold the
\* minimum of a variable and the mutated offspring holds its maximum
MutationWasClamped ==
    /\ pc = "mutate_b"
    /\ \E k \in 1..Len(variables) :
        /\ parent_a[k] = variables[k].minimum
        /\ parent_b[k] = variables[k].minimum
        /\ child_a[k] = variables[k].maximum

\* C9: after a crossover that recombined with pivot p, p is in 1..N-1,
\* offspring A has the genes before the pivot of parent A and the others of
\* parent B, offspring B is the complement, and so each variable has the
\* same two values in the offspring as in the parents.
CrossoverConservesGenes ==
    (pc = "mutate_a" /\ crossed.applied) =>
        LET n == Len(variables)
            p == crossed.pivot
        IN  /\ p \in 1..(n - 1)
            /\ \A k \in 1..n :
                /\ k <= p => child_a[k] = parent_a[k] /\ child_b[k] = parent_b[k]
                /\ k > p => child_a[k] = parent_b[k] /\ child_b[k] = parent_a[k]
                /\ \/ child_a[k] = parent_a[k] /\ child_b[k] = parent_b[k]
                   \/ child_a[k] = parent_b[k] /\ child_b[k] = parent_a[k]
            /\ child_a[1] = parent_a[1] /\ child_a[n] = parent_b[n]
            /\ child_b[1] = parent_b[1] /\ child_b[n] = parent_a[n]

\* a crossover at the last pivot of parents that differ in every gene
CrossedAtLastPivot ==
    /\ pc = "mutate_a"
    /\ crossed.applied
    /\ crossed.pivot = Len(variables) - 1
    /\ crossed.pivot > 1
    /\ \A k \in 1..Len(variables) : parent_a[k] # parent_b[k]

\* C10: no generation tag is shared by rows that two different processes
\* wrote to the ledger file.
NoTagSharedAcrossRuns ==
    \A i, j \in 1..Len(Rows) :
        Rows[i].run # Rows[j].run =>
            Rows[i].record.generation # Rows[j].record.generation

IsPrefix(s, t) == Len(s) <= Len(t) /\ SubSeq(t, 1, Len(s)) = s

\* C11: the ledger file is append-only and ordered: no step, of a run or
\* from one process to the next on the same file, changes or removes a line
\* (the lines before the step are a prefix of the lines after it), a step
\* adds at most one data row, and the rows the running process wrote are
\* its evaluations in the order they were made.
LedgerAppendOnly ==
    [][ /\ IsPrefix(history_csv.lines, history_csv'.lines)
        /\ Len(Rows') <= Len(Rows) + 1
        /\ Len(OwnRows') = Len(history')
        /\ \A i \in 1..Len(history') : OwnRows'[i].record = history'[i] ]_vars

\* the second process has completed on the file of the first
SecondRunAppended ==
    /\ run = 2
    /\ pc = "done"
    /\ Len(OwnRows) = Rounds * config.population_size
    /\ Len(Rows) > Len(OwnRows)

HeaderLines == { i \in 1..Len(history_csv.lines) : history_csv.lines[i].kind = "header" }

ReporterFailureDoesNotAbort ==
    error = "OSError" => pc # "raised"

\* the configuration errors of section 6
ConfigurationError ==
    \/ config.objective \notin SupportedObjectives
    \/ config.tournament_size \notin 2..config.population_size
    \/ config.elitism > config.population_size
    \/ \E k \in 1..Len(variables) : variables[k].minimum >= variables[k].maximum

\* C14: a run with a configuration error is rejected at startup: it makes
\* no evaluator call and no ledger entry.
ConfigurationErrorRejectedAtStartup ==
    ConfigurationError =>
        /\ evaluator_calls = 0
        /\ Len(history) = 0
        /\ Len(Rows) = 0

BudgetElapsedChildRunning ==
    /\ solver.timeout_seconds # 0
    /\ solver.child = "running"
    /\ solver.elapsed > solver.timeout_seconds

\* C15: whenever a budget is configured and the child is still running when
\* the budget has elapsed, the child is eventually terminated and the
\* evaluation ends with a timeout failure.
HardTimeoutEnforced ==
    BudgetElapsedChildRunning ~>
        (solver.child \in {"exited", "killed"} /\ solver.outcome = "TimeoutError")

\* C16: from the kill of line 93 on, and so whenever evaluate_design has
\* raised TimeoutError, the child has ended: in no state is a timeout
\* reported while the child is still running.
TimeoutChildNotRunning ==
    (solver.pc = "raise_timeout" \/ solver.outcome = "TimeoutError") =>
        solver.child \in {"killed", "exited"}

\* C17: an evaluation whose drag is exactly zero is a parse failure: no
\* coefficients with cd = 0 are returned, and the ratio objective of
\* returned coefficients is never +infinity.
ZeroDragNeverInfinite ==
    solver.outcome = "returned" =>
        /\ solver.coefficients[1].cd # 0
        /\ _objective(BaseConfig, solver.coefficients[1]) < Inf

HasLift ==
    \/ solver.history_file.exists /\ solver.history_file.has_CL
                                  /\ Len(solver.history_file.rows) > 0
    \/ solver.forces_file.exists /\ solver.forces_file.CL # None

HasDrag ==
    \/ solver.history_file.exists /\ solver.history_file.has_CD
                                  /\ Len(solver.history_file.rows) > 0
    \/ solver.forces_file.exists /\ solver.forces_file.CD # None

\* C18: when the output files hold no lift value or no drag value, the
\* evaluation ends in a parse failure and returns no coefficients.
MissingMetricIsParseFailure ==
    (solver.parsed /\ ~(HasLift /\ HasDrag)) =>
        /\ solver.outcome = "RuntimeError: parse"
        /\ solver.coefficients = None

ProcessFailureReported ==
    /\ solver.outcome = "RuntimeError: returncode"
    /\ solver.diagnostic = << solver.written >>
    /\ ~solver.parsed
    /\ solver.coefficients = None

\* C19 as stated: when the child has ended by itself with a non-success
\* status, evaluate_design ends with the process failure carrying the
\* child's output, without parsing and without coefficients.
NonSuccessStatusIsProcessFailure ==
    (solver.pc = "ended" /\ solver.child = "exited" /\ solver.status # 0) =>
        ProcessFailureReported

\* C19 as amended: when the child has ended by itself with a non-success
\* status and no timeout check found the budget exceeded before the end of
\* its output was read, evaluate_design ends with the process failure
\* carrying every line the child wrote, without parsing and without
\* coefficients; the process failure is raised in no other case.
NonSuccessStatusIsProcessFailureUnlessTimeout ==
    /\ (solver.pc = "ended" /\ solver.child = "exited" /\ solver.status # 0
            /\ solver.outcome # "TimeoutError") => ProcessFailureReported
    /\ solver.outcome = "RuntimeError: returncode" =>
            solver.child = "exited" /\ solver.status # 0
    /\ solver.parsed => solver.status = 0

\* a child ended by a signal after writing, reported with its output
SignalledChildReported ==
    /\ solver.outcome = "RuntimeError: returncode"
    /\ solver.status < 0
    /\ solver.diagnostic = << MaxLines >>

\* C20: no two evaluations of a run are assigned the same case identifier
\* (working directory) or the same design identifier (export files).
UniqueScopedIdentifiers ==
    /\ Cardinality(solver.case_dirs) = solver.calls
    /\ Cardinality(solver.designs) = solver.calls

\* the exceptions an _evaluate call raises
EvaluationErrors ==
    { "TimeoutError", "RuntimeError: returncode", "RuntimeError: parse",
      "ValueError: objective", "OSError: history_csv" }

\* C22: the step on which the k-th evaluation raises leaves the ledger (in
\* memory and in the file) as it was, the exception leaves optimise, and
\* the ledger then holds exactly the records of evaluations 1..k-1, the
\* file rows equal to the records in memory, in order, and no other line
\* than the header and these rows.
AbortKeepsEarlierRecords ==
    [][ (pc' = "raised" /\ error' \in EvaluationErrors) =>
            /\ history' = history
            /\ history_csv' = history_csv
            /\ evaluator_calls' = evaluator_calls + 1
            /\ Len(history') = evaluator_calls' - 1
            /\ Len(OwnRows') = evaluator_calls' - 1
            /\ \A i \in 1..Len(history_csv'.lines) :
                history_csv'.lines[i].kind \in {"header", "row"}
            /\ \A i \in 1..Len(history') :
                /\ OwnRows'[i].record = history'[i]
                /\ history'[i].generation = ((i - 1) \div config.population_size) + 1
      ]_vars

\* the evaluation rounds the process has completed
RoundsCompleted ==
    IF pc \in {"start", "evaluate_initial"} THEN 0
    ELSE IF pc = "report" THEN generation + 2
    ELSE generation + 1

\* C23: every evaluation (a step that calls the evaluator) evaluates the
\* next individual of the population not evaluated yet in the round and
\* appends one record and one file row, and no round is left before each
\* of its individuals is evaluated; so r completed rounds have made
\* r * population_size evaluator calls and entries, the i-th entry carries
\* the tag of its round, (i - 1) div population_size + 1 >= 1, and a round
\* in progress has added one entry per individual evaluated.  (A step that
\* leaves optimise outside a round changes no entry: the counts are those
\* of the state before it.)
EachRoundEvaluatesEachOnce ==
    [][ /\ evaluator_calls' # evaluator_calls =>
            /\ evaluator_calls' = evaluator_calls + 1
            /\ Len(fitness') = Len(fitness) + 1
            /\ Len(fitness') <= Len(population)
            /\ population' = population
            /\ Len(history') = Len(history) + 1
            /\ Len(Rows') = Len(Rows) + 1
        /\ Evaluating => pc' # "raised"
        /\ pc' # "raised" =>
            /\ Len(history') = RoundsCompleted' * config.population_size
                   + (IF pc' \in {"evaluate_initial", "evaluate"}
                      THEN Len(fitness') ELSE 0)
            /\ evaluator_calls' = Len(history')
            /\ Len(OwnRows') = Len(history')
            /\ pc' \notin {"start", "evaluate_initial", "evaluate"} =>
                   Len(fitness') = config.population_size
            /\ \A i \in 1..Len(history') :
                /\ history'[i].generation >= 1
                /\ history'[i].generation = ((i - 1) \div config.population_size) + 1
                /\ OwnRows'[i].record = history'[i]
      ]_vars

\* the indices of the individuals with the highest fitness of the population
Fittest ==
    { i \in 1..Len(population) :
        \A j \in 1..Len(population) : fitness[j].score <= fitness[i].score }

\* draw holds tournament_size distinct indices of the population, and
\* parent is the individual at one of them whose fitness is >= the fitness
\* of every index of draw
FittestOfDraw(parent, draw) ==
    /\ Len(draw) = config.tournament_size
    /\ \A k \in 1..Len(draw) : draw[k] \in 1..Len(population)
    /\ \A j, k \in 1..Len(draw) : j # k => draw[j] # draw[k]
    /\ \E w \in 1..Len(draw) :
        /\ parent = population[draw[w]]
        /\ \A k \in 1..Len(draw) :
            fitness[draw[k]].score <= fitness[draw[w]].score

\* C24: a selection step draws, for each of the two parents, tournament_size
\* distinct indices of the current population and returns the individual at
\* one of the drawn indices whose fitness is >= the fitness of every drawn
\* participant; with tournament_size = population_size the individual
\* returned is a fittest individual of the population.
TournamentReturnsFittestDrawn ==
    [][ (pc = "select" /\ pc' = "crossover") =>
            /\ Len(participants') = 2
            /\ FittestOfDraw(parent_a', participants'[1])
            /\ FittestOfDraw(parent_b', participants'[2])
            /\ config.tournament_size = Len(population) =>
                /\ \E i \in Fittest : parent_a' = population[i]
                /\ \E i \in Fittest : parent_b' = population[i]
      ]_vars

\* a tournament of two out of three that no fittest individual took part
\* in: the parent returned is one of the two drawn and not a fittest
\* individual of the population
TournamentWithoutTheFittest ==
    /\ pc = "crossover"
    /\ config.tournament_size < Len(population)
    /\ \A k \in 1..Len(participants[1]) : participants[1][k] \notin Fittest
    /\ \E w \in 1..Len(participants[1]) :
        parent_a = population[participants[1][w]]
    /\ \A i \in Fittest : population[i] # parent_a

\* how often individual occurs in the population pop
Occurrences(pop, individual) ==
    Cardinality({ i \in 1..Len(pop) : pop[i] = individual })

\* C29: with elitism >= population_size no step selects, crossovers or
\* mutates; the population changes only at the replacement, which puts the
\* individual of rank r (fitness descending, ties to the earlier) at
\* position r, so the next population holds every individual as often as
\* the current one.
AllElitePopulationOnlyReordered ==
    [][ config.elitism >= config.population_size =>
            /\ pc' \notin {"select", "crossover", "mutate_a", "mutate_b"}
            /\ ~crossed'.applied
            /\ pc \notin {"start", "replace"} => population' = population
            /\ pc = "replace" =>
                /\ Len(population') = Len(population)
                /\ \A r \in 1..Len(population) :
                    population'[r] = population[IndexOfRank(fitness, r)]
                /\ \A i \in 1..Len(population) :
                    Occurrences(population', population[i])
                        = Occurrences(population, population[i])
      ]_vars

\* every individual is an elite and the replacement reorders them
AllEliteReordered ==
    /\ pc = "replace"
    /\ config.elitism >= config.population_size
    /\ fitness[1].score < fitness[2].score
    /\ population[1] # population[2]
    /\ next_population = <<population[2], population[1]>>

\* C25: for every draw of random.random(), crossover_rate = 0 never
\* recombines (the offspring before mutation equal the parents) and
\* crossover_rate = 1 always recombines.
CrossoverRateExtremes ==
    pc = "mutate_a" =>
        /\ config.crossover_rate = 0 =>
            /\ ~crossed.applied
            /\ child_a = parent_a
            /\ child_b = parent_b
        /\ config.crossover_rate = 10 => crossed.applied

\* C30: with one design variable no crossover recombines: the step at the
\* crossover either passes the parents through as the offspring (the draw
\* was above the rate) or raises the ValueError of the empty pivot range,
\* which leaves optimise with nothing added to the next population and
\* after the initial population was evaluated and recorded.
SingleVariableCrossoverRaises ==
    [][ Len(variables) = 1 =>
            /\ ~crossed'.applied
            /\ pc = "crossover" =>
                \/ /\ pc' = "raised"
                   /\ error' = "ValueError: randint"
                   /\ next_population' = next_population
                   /\ child_a' = NoIndividual /\ child_b' = NoIndividual
                   /\ Len(history') >= config.population_size
                   /\ Len(OwnRows') >= config.population_size
                \/ /\ pc' = "mutate_a"
                   /\ child_a' = parent_a
                   /\ child_b' = parent_b
            /\ error' = "ValueError: randint" => error = error' \/ pc = "crossover"
      ]_vars

\* the run of a one-variable design space ended by the ValueError
SingleVariableRunAborted ==
    /\ Len(variables) = 1
    /\ pc = "raised"
    /\ error = "ValueError: randint"
    /\ Len(history) = config.population_size
    /\ next_population # <<>>

\* the positions in self._history of the entries of round r
RoundEntries(r) ==
    { i \in 1..Len(history) :
        (r - 1) * config.population_size < i /\ i <= r * config.population_size }

\* C28: with elitism >= 1 and an evaluator that is a function of the
\* individual, every fitness of a round is reached or exceeded by a fitness
\* of the next completed round (the maximum never decreases), and the
\* individual optimise returns has the best fitness recorded in the run.
ElitismKeepsTheBest ==
    config.elitism >= 1 =>
        /\ \A r \in 1..((Len(history) \div config.population_size) - 1) :
            \A i \in RoundEntries(r) :
                \E j \in RoundEntries(r + 1) :
                    RecordScore(history[i]) <= RecordScore(history[j])
        /\ pc = "done" =>
            \A i \in 1..Len(history) : RecordScore(history[i]) <= result.score

\* the returned individual is the elite of a run of two generations, fitter
\* than the offspring next to it, and not every evaluation reached its fitness
EliteReturnedAfterTwoGenerations ==
    /\ pc = "done"
    /\ config.elitism = 1
    /\ config.generations = 2
    /\ result.individual = population[1]
    /\ fitness[2].score < fitness[1].score
    /\ \E i \in 1..Len(history) : RecordScore(history[i]) < result.score

\* C27: the progress reporter has no feedback into the search: whether the
\* reporter is enabled, disabled or absent, the step from a report is the
\* same one, on to the next generation or to the return of the best, with
\* the population, the fitness values and the ledger as they were.
ReporterHasNoFeedback ==
    [][pc = "report" =>
        /\ pc' = IF loop_continues(config, generation + 1)
                 THEN "elitism" ELSE "extract"
        /\ UNCHANGED <<population, fitness, history, history_csv>>]_vars

\* both seeded processes have returned from optimise
BothRunsDone == \A p \in Processes : seeded.process[p].pc = "done"

\* C21: given a fixed random seed, two runs with the same configuration and
\* a deterministic evaluator produce identical ledgers: the same entries,
\* field for field, in the same order.
SeededRunsProduceIdenticalLedgers ==
    BothRunsDone => seeded.process[1].ledger = seeded.process[2].ledger

\* the references a sequence of names holds
References(names) == { names[i] : i \in 1..Len(names) }

\* C26: no individual is mutated in place.  Every step of optimise leaves
\* the content of every dict that exists unchanged, so the individuals of
\* the current generation, the elite and the parents stay as they were and
\* every ledger record still shows the values of the dict it was read from;
\* and the offspring a reproduction step adds to next_population are two
\* dicts allocated in that generation, different from every individual of
\* the current population, from what next_population held and from each
\* other.
NoIndividualMutatedInPlace ==
    [][/\ \A ref \in 1..Len(heap.objects) :
            heap'.objects[ref] = heap.objects[ref]
       /\ \A i \in 1..Len(heap.ledger) :
            /\ heap'.ledger[i] = heap.ledger[i]
            /\ heap'.objects[heap.ledger[i].ref] = heap.ledger[i].individual
       /\ heap.pc = "mutate_b" =>
            LET a == heap'.next_population[Len(heap.next_population) + 1]
                b == heap'.next_population[Len(heap.next_population) + 2]
            IN  /\ a # b
                /\ {a, b} \cap References(heap.population) = {}
                /\ {a, b} \cap References(heap.next_population) = {}
                /\ {a, b} \cap { heap.ledger[i].ref :
                                   i \in 1..Len(heap.ledger) } = {}
      ]_vars

\* a parent that is also the elite passed through crossover, its copy was
\* mutated into a different individual, and the parent's dict still holds
\* the values its ledger record shows
OffspringMutatedEliteParentIntact ==
    /\ heap.pc = "replace"
    /\ ~heap.crossed
    /\ heap.next_population[1] = heap.parent_a
    /\ heap.objects[heap.child_a] # heap.objects[heap.parent_a]
    /\ \E i \in 1..Len(heap.ledger) :
        /\ heap.ledger[i].ref = heap.parent_a
        /\ heap.ledger[i].individual = heap.objects[heap.parent_a]
    /\ heap.generation = 1

====
